---- MODULE Spec2Model ----
(***************************************************************************)
(* Model of the text layout engine of the TextComponent:                   *)
(*   tokenize(spans, text, styles) =                                       *)
(*     sort spans -> chunkText -> styleTextChunks_ -> tokenizeTextChunks   *)
(* (src/src/components/TextComponent/tokenize.tsx).                        *)
(*                                                                         *)
(* A text is a sequence of one-character strings.  JavaScript's null is    *)
(* the empty tuple NULL and a number n held in a nullable field (depth,    *)
(* zIndex, label) is the one-element tuple <<n>>, so that null and numbers *)
(* can be compared.                                                        *)
(***************************************************************************)
EXTENDS Integers, Sequences, FiniteSets, TLC

VARIABLES
    pc,                     \* position inside tokenize
    text,                   \* argument `text`
    styles,                 \* argument `styles`
    spans,                  \* the caller's array passed as argument `spans`
    input,                  \* history: the caller's array as it was at the call
    sorted,                 \* the local `spans` after sort(...).map(...)
    text_chunks,            \* the local `text_chunks`
    underlineCluster,       \* styleTextChunks_: Set of chunk indices (0-based)
    underlineClusterDepth,  \* styleTextChunks_
    rightMostOffset,        \* styleTextChunks_
    span_i,                 \* index of the next span handed to the forEach callback
    lines,                  \* returned `lines`
    ids                     \* returned `ids`

vars == <<pc, text, styles, spans, input, sorted, text_chunks, underlineCluster,
          underlineClusterDepth, rightMostOffset, span_i, lines, ids>>

-----------------------------------------------------------------------------
(* Bounds of the inputs *)

MaxLen == 3          \* longest text of the chunking specification
MaxSpans == 1        \* most spans of the chunking specification
MaxLayoutSpans == 2  \* most spans of the layout specification
MaxClusterSpans == 3 \* most spans of the cluster specification
MaxStyleSpans == 2   \* most spans of the style-lookup specification

Chars == {"a", " ", "\n"}
LayoutText == <<"a", "b", "c">>

-----------------------------------------------------------------------------
(* JavaScript values *)

NULL == <<>>

\* ToNumber of a nullable number: null converts to 0
ToNumber(v) == IF v = NULL THEN 0 ELSE v[1]

Min(S) == CHOOSE m \in S : \A n \in S : m <= n
Max(S) == CHOOSE m \in S : \A n \in S : n <= m

\* String.prototype.slice(begin, end): negative offsets count from the end
SliceIndex(s, k) ==
    IF k < 0 THEN (IF Len(s) + k > 0 THEN Len(s) + k ELSE 0)
             ELSE (IF k < Len(s) THEN k ELSE Len(s))

Slice(s, begin, end) == SubSeq(s, SliceIndex(s, begin) + 1, SliceIndex(s, end))

RECURSIVE Concat(_)
Concat(ss) == IF ss = <<>> THEN <<>> ELSE Head(ss) \o Concat(Tail(ss))

\* [...new Set(indices)].sort((a, b) => a - b)
RECURSIVE SortedSeq(_)
SortedSeq(S) == IF S = {} THEN <<>> ELSE <<Min(S)>> \o SortedSeq(S \ {Min(S)})

-----------------------------------------------------------------------------
(* chunkText *)

\* length of the longest prefix of s matching [ ]+ (spaces) or [^ \n]+ (not spaces)
RECURSIVE RunLength(_, _)
RunLength(s, spaces) ==
    IF s # <<>> /\ Head(s) # "\n" /\ (Head(s) = " ") = spaces
    THEN 1 + RunLength(Tail(s), spaces) ELSE 0

\* s.match(/\n|[^ \n]+|[ ]+/g): leftmost matches, each run maximal
RECURSIVE Match(_)
Match(s) ==
    IF s = <<>> THEN <<>>
    ELSE LET n == IF Head(s) = "\n" THEN 1 ELSE RunLength(s, Head(s) = " ")
         IN  <<SubSeq(s, 1, n)>> \o Match(SubSeq(s, n + 1, Len(s)))

NonEmpty(t) == Len(t) > 0

NotSpaces(t) == Len(t) > 0 /\ t[1] # " "

\* a tokenizer that drops the runs of spaces
ChunkTokensWithoutSpaces(text_slice) ==
    IF Len(text_slice) > 0 THEN SelectSeq(Match(text_slice), NotSpaces)
                           ELSE << <<>> >>

ChunkTokens(text_slice) ==
    IF Len(text_slice) > 0 THEN SelectSeq(Match(text_slice), NonEmpty)
                           ELSE << <<>> >>

\* split indices that leave out the end of the text
IndicesWithoutEnd(sp, txt) ==
    SortedSeq({sp[i].begin : i \in DOMAIN sp} \cup {sp[i].end : i \in DOMAIN sp}
              \cup {0})

Indices(sp, txt) ==
    SortedSeq({sp[i].begin : i \in DOMAIN sp} \cup {sp[i].end : i \in DOMAIN sp}
              \cup {0, Len(txt)})

chunkText(sp, txt) ==
    LET indices == Indices(sp, txt)
    IN  [k \in 1..(Len(indices) - 1) |->
            [begin |-> indices[k],
             end |-> indices[k + 1],
             label |-> NULL,
             token_annotations |-> <<>>,
             tokens |-> ChunkTokens(Slice(txt, indices[k], indices[k + 1]))]]

-----------------------------------------------------------------------------
(* tokenize: the sort of the spans *)

\* the comparator handed to spans.sort
Compare(a, b) ==
    IF a.mouseSelected = b.mouseSelected
    THEN (IF a.begin # b.begin THEN a.begin - b.begin ELSE b.end - a.end)
    ELSE (IF a.mouseSelected THEN -1 ELSE 1)

\* x put behind every element that does not sort after it
Insert(s, x) ==
    LET later == {k \in DOMAIN s : Compare(s[k], x) > 0}
        at == IF later = {} THEN Len(s) + 1 ELSE Min(later)
    IN  SubSeq(s, 1, at - 1) \o <<x>> \o SubSeq(s, at, Len(s))

\* Array.prototype.sort is stable
RECURSIVE SortSpans(_)
SortSpans(s) ==
    IF s = <<>> THEN <<>>
    ELSE Insert(SortSpans(SubSeq(s, 1, Len(s) - 1)), s[Len(s)])

\* .map(span => ({...span, text: text.slice(span.begin, span.end)}))
WithText(span, txt) ==
    [begin |-> span.begin, end |-> span.end, label |-> span.label,
     style |-> span.style, id |-> span.id, mouseSelected |-> span.mouseSelected,
     text |-> Slice(txt, span.begin, span.end)]

-----------------------------------------------------------------------------
(* styleTextChunks_ *)

\* styles?.[style]?.shape
Shape(style) == IF style \in DOMAIN styles THEN styles[style].shape ELSE "undefined"

\* styles[style]?.autoNestingLayout !== false
AutoNesting(style) ==
    IF style \in DOMAIN styles THEN styles[style].autoNestingLayout # FALSE ELSE TRUE

\* a reversal that subtracts the cluster depth only
ReversedDepthUnshifted(depth, clusterDepth) == <<ToNumber(depth) - clusterDepth>>

\* the annotation's depth after the reversal of its cluster
ReversedDepth(depth, clusterDepth) == <<ToNumber(depth) - clusterDepth - 1>>

\* one annotation, as the forEach callback of the reversal leaves it
ReverseAnnotation(annotation, clusterDepth) ==
    IF Shape(annotation.style) = "underline"
    THEN [annotation EXCEPT !.depth = ReversedDepth(annotation.depth, clusterDepth)]
    ELSE annotation

reverseUnderlineClusterDepths(chunks, cluster, clusterDepth) ==
    [k \in DOMAIN chunks |->
        IF (k - 1) \in cluster
        THEN [chunks[k] EXCEPT !.token_annotations =
                [j \in DOMAIN chunks[k].token_annotations |->
                    ReverseAnnotation(chunks[k].token_annotations[j], clusterDepth)]]
        ELSE chunks[k]]

\* the chunks (1-based positions) the span overlaps
Overlapping(chunks, span) ==
    {k \in DOMAIN chunks : chunks[k].begin < span.end /\ span.begin < chunks[k].end}

\* the indices set to true in missingBoxDepths / missingUnderlineDepths:
\* a null or negative depth sets a property of the array, not an element
OccupiedDepths(annotations, underline) ==
    {ToNumber(annotations[j].depth) : j \in
        {j \in DOMAIN annotations :
            /\ ~annotations[j].mouseSelected
            /\ (styles[annotations[j].style].shape = "underline") = underline
            /\ annotations[j].depth # NULL
            /\ annotations[j].depth[1] >= 0}}

OccupiedZIndices(annotations) ==
    {ToNumber(annotations[j].zIndex) : j \in
        {j \in DOMAIN annotations :
            /\ ~annotations[j].mouseSelected
            /\ annotations[j].zIndex # NULL
            /\ annotations[j].zIndex[1] >= 0}}

\* length of an array that started as [undefined] and had these indices set
ArrayLength(occupied) == IF occupied = {} THEN 1 ELSE Max(occupied) + 1

\* a search that stops at the first element whatever it holds
FindIndexFirst(occupied) == 0

\* missing.findIndex(isNot)
FindIndexIsNot(occupied) ==
    LET free == {k \in 0..(ArrayLength(occupied) - 1) : k \notin occupied}
    IN  IF free = {} THEN -1 ELSE Min(free)

FirstMissing(occupied) ==
    IF FindIndexIsNot(occupied) = -1 THEN ArrayLength(occupied)
                                     ELSE FindIndexIsNot(occupied)

\* the guard of the depth computation at the first overlapping chunk
ComputesDepth(span) == ~span.mouseSelected /\ AutoNesting(span.style)

\* styles[...].shape of a style that is not in the table throws a TypeError
LookupThrows(span, annotations) ==
    \/ span.style \notin DOMAIN styles
    \/ \E j \in DOMAIN annotations :
          ~annotations[j].mouseSelected /\ annotations[j].style \notin DOMAIN styles

Annotation(chunk, span, newDepth, newZIndex) ==
    [depth |-> newDepth,
     openleft |-> chunk.begin # span.begin,
     openright |-> chunk.end # span.end,
     label |-> span.label,
     isFirstTokenOfSpan |-> chunk.begin = span.begin,
     style |-> span.style,
     zIndex |-> newZIndex,
     id |-> span.id,
     mouseSelected |-> span.mouseSelected,
     text |-> span.text]

\* underlineClusterDepth after the span's annotations were recorded
NextClusterDepth(clusterDepth, span, newDepth) ==
    IF Shape(span.style) = "underline" /\ clusterDepth < ToNumber(newDepth)
    THEN ToNumber(newDepth) ELSE clusterDepth

-----------------------------------------------------------------------------
(* tokenizeTextChunks *)

\* sum of the lengths of the first n tokens
RECURSIVE OffsetInChunk(_, _)
OffsetInChunk(tokens, n) ==
    IF n = 0 THEN 0 ELSE OffsetInChunk(tokens, n - 1) + Len(tokens[n])

TokenData(chunk, token_i) ==
    LET span_begin == chunk.begin + OffsetInChunk(chunk.tokens, token_i - 1)
        span_end == span_begin + Len(chunk.tokens[token_i])
    IN  [text |-> chunk.tokens[token_i],
         key |-> ToString(span_begin) \o "-" \o ToString(span_end),
         begin |-> span_begin,
         end |-> span_end,
         token_annotations |-> chunk.token_annotations,
         isFirstTokenOfChunk |-> token_i = 1,
         isLastTokenOfChunk |-> token_i = Len(chunk.tokens)]

\* every token of every chunk, in the order of the two nested loops
RECURSIVE AllTokens(_)
AllTokens(chunks) ==
    IF chunks = <<>> THEN <<>>
    ELSE AllTokens(SubSeq(chunks, 1, Len(chunks) - 1))
         \o [t \in 1..Len(chunks[Len(chunks)].tokens) |-> TokenData(chunks[Len(chunks)], t)]

\* <<all_lines, current_line>> after the first n tokens
RECURSIVE SplitLines(_, _)
SplitLines(toks, n) ==
    IF n = 0 THEN <<<<>>, <<>>>>
    ELSE LET before == SplitLines(toks, n - 1)
         IN  IF toks[n].text = <<"\n">>
             THEN <<Append(before[1], before[2]), <<>>>>
             ELSE <<before[1], Append(before[2], toks[n])>>

\* a push of the last line only when it holds a token
PushesNonEmptyLine(current_line, tokens) == Len(current_line) > 0

\* the condition of the push after the loops; `tokens` holds the last chunk's tokens
PushesLastLine(current_line, tokens) ==
    Len(current_line) > 0 \/ (Len(tokens) > 0 /\ tokens[Len(tokens)] = <<"\n">>)

tokenizeTextChunks(chunks) ==
    LET toks == AllTokens(chunks)
        split == SplitLines(toks, Len(toks))
        tokens == IF chunks = <<>> THEN <<>> ELSE chunks[Len(chunks)].tokens
    IN  IF PushesLastLine(split[2], tokens) THEN Append(split[1], split[2])
                                            ELSE split[1]

-----------------------------------------------------------------------------
(* The call of tokenize, one phase per step *)

\* spans = spans.sort(...).map(...): the sort is in place, the map copies
Sort ==
    /\ pc = "call"
    /\ spans' = SortSpans(spans)
    /\ sorted' = [k \in DOMAIN spans |-> WithText(SortSpans(spans)[k], text)]
    /\ pc' = "chunk"
    /\ UNCHANGED <<text, styles, input, text_chunks, underlineCluster,
                   underlineClusterDepth, rightMostOffset, span_i, lines, ids>>

\* const text_chunks = chunkText(spans, text), then styleTextChunks_'s locals
ChunkText ==
    /\ pc = "chunk"
    /\ text_chunks' = chunkText(sorted, text)
    /\ underlineCluster' = {}
    /\ underlineClusterDepth' = 0
    /\ rightMostOffset' = 0
    /\ span_i' = 1
    /\ pc' = "style"
    /\ UNCHANGED <<text, styles, spans, input, sorted, lines, ids>>

\* one call of the callback of spans.forEach
StyleSpan ==
    /\ pc = "style"
    /\ span_i <= Len(sorted)
    /\ LET span == sorted[span_i]
           flush == span.begin >= rightMostOffset
           chunks == IF flush
                     THEN reverseUnderlineClusterDepths(text_chunks, underlineCluster,
                                                        underlineClusterDepth)
                     ELSE text_chunks
           over == Overlapping(chunks, span)
           first == chunks[Min(over)].token_annotations
           computes == over # {} /\ ComputesDepth(span)
           underline == styles[span.style].shape = "underline"
           newDepth == IF computes THEN <<FirstMissing(OccupiedDepths(first, underline))>>
                                   ELSE NULL
           newZIndex == IF computes THEN <<FirstMissing(OccupiedZIndices(first))>>
                                    ELSE NULL
       IN  IF computes /\ LookupThrows(span, first)
           THEN \* the TypeError leaves tokenize: no result
                /\ pc' = "thrown"
                /\ UNCHANGED <<text_chunks, underlineCluster, underlineClusterDepth,
                               rightMostOffset, span_i>>
           ELSE /\ text_chunks' =
                     [k \in DOMAIN chunks |->
                        IF k \in over
                        THEN [chunks[k] EXCEPT
                                !.label = IF chunks[k].begin = span.begin
                                          THEN <<span.label>> ELSE @,
                                !.token_annotations =
                                    <<Annotation(chunks[k], span, newDepth, newZIndex)>> \o @]
                        ELSE chunks[k]]
                /\ underlineCluster' = (IF flush THEN {} ELSE underlineCluster)
                                           \cup {k - 1 : k \in over}
                /\ underlineClusterDepth' =
                     IF over # {}
                     THEN NextClusterDepth(underlineClusterDepth, span, newDepth)
                     ELSE underlineClusterDepth
                /\ rightMostOffset' = IF flush \/ rightMostOffset < span.end
                                      THEN span.end ELSE rightMostOffset
                /\ span_i' = span_i + 1
                /\ pc' = "style"
    /\ UNCHANGED <<text, styles, spans, input, sorted, lines, ids>>

\* the reverseUnderlineClusterDepths() that ends styleTextChunks_
FinalFlush ==
    /\ pc = "style"
    /\ span_i > Len(sorted)
    /\ text_chunks' = reverseUnderlineClusterDepths(text_chunks, underlineCluster,
                                                    underlineClusterDepth)
    /\ pc' = "lines"
    /\ UNCHANGED <<text, styles, spans, input, sorted, underlineCluster,
                   underlineClusterDepth, rightMostOffset, span_i, lines, ids>>

\* ids, linesOfTokens and the return
TokenizeTextChunks ==
    /\ pc = "lines"
    /\ ids' = [k \in DOMAIN sorted |-> sorted[k].id]
    /\ lines' = tokenizeTextChunks(text_chunks)
    /\ pc' = "done"
    /\ UNCHANGED <<text, styles, spans, input, sorted, text_chunks, underlineCluster,
                   underlineClusterDepth, rightMostOffset, span_i>>

Next == Sort \/ ChunkText \/ StyleSpan \/ FinalFlush \/ TokenizeTextChunks

-----------------------------------------------------------------------------
(* Inputs *)

\* the style table of the calls
StyleTable ==
    [name \in {"box", "underline", "flatBox", "flatUnderline"} |->
        [shape |-> IF name \in {"underline", "flatUnderline"} THEN "underline" ELSE "box",
         autoNestingLayout |-> name \in {"box", "underline"}]]

Texts(n) == UNION {[1..k -> Chars] : k \in 0..n}

\* a span's id and label are its place in the caller's array
SpanArray(f) ==
    [i \in DOMAIN f |->
        [begin |-> f[i].begin, end |-> f[i].end, style |-> f[i].style,
         mouseSelected |-> f[i].mouseSelected, id |-> i, label |-> i]]

WellFormed(sp, txt) ==
    \A i \in DOMAIN sp : 0 <= sp[i].begin /\ sp[i].begin <= sp[i].end /\ sp[i].end <= Len(txt)

\* the spans [begin, end) inside a text of length n, of the given kinds
SpansWithin(n, kinds) ==
    {[begin |-> r[1], end |-> r[2], style |-> k.style, mouseSelected |-> k.mouseSelected] :
        r \in {r \in (0..n) \X (0..n) : r[1] <= r[2]}, k \in kinds}

InitCall(txt, sp) ==
    /\ pc = "call"
    /\ text = txt
    /\ styles = StyleTable
    /\ spans = sp
    /\ input = sp
    /\ sorted = <<>>
    /\ text_chunks = <<>>
    /\ underlineCluster = {}
    /\ underlineClusterDepth = 0
    /\ rightMostOffset = 0
    /\ span_i = 1
    /\ lines = <<>>
    /\ ids = <<>>

\* Chunking and line splitting: every text, spans with any offsets around it
Init ==
    \E txt \in Texts(MaxLen) : \E k \in 0..MaxSpans :
      \E f \in [1..k -> [begin : (0 - 2)..(Len(txt) + 1), end : (0 - 2)..(Len(txt) + 1),
                          style : {"box"}, mouseSelected : {FALSE}]] :
        InitCall(txt, SpanArray(f))

Spec == Init /\ [][Next]_vars

\* Layout: well-formed spans of every style, in the order the sort leaves them
SpanKinds ==
    [style : DOMAIN StyleTable, mouseSelected : {FALSE}]
    \cup [style : {"box", "underline"}, mouseSelected : {TRUE}]

InitSortedSpans(most) ==
    \E n \in 0..Len(LayoutText) : \E k \in 0..most :
      \E f \in [1..k -> SpansWithin(n, SpanKinds)] :
        /\ \A i, j \in 1..k : i < j => Compare(f[i], f[j]) <= 0
        /\ InitCall(SubSeq(LayoutText, 1, n), SpanArray(f))

InitLayout == InitSortedSpans(MaxLayoutSpans)

SpecLayout == InitLayout /\ [][Next]_vars

\* Clusters: the same inputs with one more span, for runs of several clusters
InitCluster == InitSortedSpans(MaxClusterSpans)

SpecCluster == InitCluster /\ [][Next]_vars

\* Style lookup: spans in any order, some naming a style the table lacks
InitStyle ==
    \E n \in 0..Len(LayoutText) : \E k \in 0..MaxStyleSpans :
      \E f \in [1..k -> SpansWithin(n, [style : {"box", "underline", "ghost"},
                                        mouseSelected : BOOLEAN])] :
        InitCall(SubSeq(LayoutText, 1, n), SpanArray(f))

SpecStyle == InitStyle /\ [][Next]_vars

-----------------------------------------------------------------------------
(* Vocabulary of the properties *)

Chunked == pc \in {"style", "lines", "done"}

Annotations(k) == text_chunks[k].token_annotations

IsUnderline(annotation) == Shape(annotation.style) = "underline"

\* laid out automatically: neither mouse-selected nor autoNestingLayout: false
IsAutomatic(annotation) == ~annotation.mouseSelected /\ AutoNesting(annotation.style)

ChunkBoundaries ==
    {text_chunks[k].begin : k \in DOMAIN text_chunks}
    \cup {text_chunks[k].end : k \in DOMAIN text_chunks}

SpanBoundaries ==
    {0, Len(text)} \cup {input[i].begin : i \in DOMAIN input}
                   \cup {input[i].end : i \in DOMAIN input}

ChunksPartitionText ==
    /\ \A k \in DOMAIN text_chunks : text_chunks[k].begin < text_chunks[k].end
    /\ \A k \in 1..(Len(text_chunks) - 1) : text_chunks[k].end = text_chunks[k + 1].begin
    /\ text_chunks # <<>> =>
          text_chunks[1].begin = 0 /\ text_chunks[Len(text_chunks)].end = Len(text)
    /\ ChunkBoundaries = SpanBoundaries
    /\ Len(text_chunks) = Cardinality(SpanBoundaries) - 1

\* the tokens of all chunks, concatenated in chunk order and token order
TokensOfChunks == Concat([k \in DOMAIN text_chunks |-> Concat(text_chunks[k].tokens)])

\* the pieces of s between its newline characters
RECURSIVE Segments(_)
Segments(s) ==
    IF \A p \in DOMAIN s : s[p] # "\n" THEN <<s>>
    ELSE LET p == Min({q \in DOMAIN s : s[q] = "\n"})
         IN  <<SubSeq(s, 1, p - 1)>> \o Segments(SubSeq(s, p + 1, Len(s)))

LineText(line) == Concat([t \in DOMAIN line |-> line[t].text])

-----------------------------------------------------------------------------
(* C1: chunks partition the text at the span boundaries *)

\* C1 (as stated): for every text and all spans with 0 <= begin <= end <= length,
\* the chunks are ordered and contiguous from 0 to the text's length, and their
\* boundaries are exactly 0, the length and every span's begin and end.
C1_EveryText == (Chunked /\ WellFormed(input, text)) => ChunksPartitionText

\* C1 (amended): the same for every text that is not empty; an empty text has no
\* chunk at all, so the boundary 0 belongs to none.
C1_NonEmptyText ==
    (Chunked /\ WellFormed(input, text) /\ Len(text) > 0) => ChunksPartitionText

C1_Witness ==
    /\ Chunked /\ WellFormed(input, text) /\ Len(text) = 2
    /\ Len(input) >= 2 /\ Len(text_chunks) = 2
    /\ \E i \in DOMAIN input : input[i].begin = 1 /\ input[i].end = 1

-----------------------------------------------------------------------------
(* C2: round trip of the chunk tokens *)

\* C2 (as stated): for any text and any spans, the concatenated tokens of all
\* chunks are the text.
C2_AnySpans == Chunked => TokensOfChunks = text

\* C2 (amended): for any text and any spans whose begin and end are not negative
\* (in any order, also beyond the end of the text), the concatenated tokens of all
\* chunks are the text.
C2_NonNegativeSpans ==
    (Chunked /\ \A i \in DOMAIN input : input[i].begin >= 0 /\ input[i].end >= 0)
        => TokensOfChunks = text

C2_Witness ==
    /\ Chunked
    /\ \E i \in DOMAIN input :
          input[i].begin > input[i].end /\ input[i].begin > Len(text) /\ input[i].end > 0
    /\ \E p, q \in DOMAIN text : text[p] = "\n" /\ text[q] = " "
    /\ \E k \in DOMAIN text_chunks : text_chunks[k].tokens = << <<>> >>

-----------------------------------------------------------------------------
(* C3: shape separation *)

\* annotations i and j of chunk k are of one shape category and of one depth
SameShapeAndDepth(k, i, j) ==
    /\ IsUnderline(Annotations(k)[i]) = IsUnderline(Annotations(k)[j])
    /\ Annotations(k)[i].depth = Annotations(k)[j].depth

\* C3 (as stated): after tokenize no two annotations of a chunk that are both not
\* mouse-selected and of the same shape category have the same depth.
C3_NotMouseSelected ==
    pc = "done" =>
        \A k \in DOMAIN text_chunks : \A i, j \in DOMAIN Annotations(k) :
            (/\ i < j
             /\ ~Annotations(k)[i].mouseSelected
             /\ ~Annotations(k)[j].mouseSelected) => ~SameShapeAndDepth(k, i, j)

\* C3 (amended): after tokenize no two annotations of a chunk that are both laid
\* out automatically (not mouse-selected, style without autoNestingLayout: false)
\* and of the same shape category have the same depth.
C3_Automatic ==
    pc = "done" =>
        \A k \in DOMAIN text_chunks : \A i, j \in DOMAIN Annotations(k) :
            (/\ i < j
             /\ IsAutomatic(Annotations(k)[i])
             /\ IsAutomatic(Annotations(k)[j])) => ~SameShapeAndDepth(k, i, j)

\* two partially overlapping automatic underlines on a chunk
C3_Witness ==
    /\ pc = "done"
    /\ \E k \in DOMAIN text_chunks : \E i, j \in DOMAIN Annotations(k) :
          /\ \A a \in {i, j} : IsAutomatic(Annotations(k)[a]) /\ IsUnderline(Annotations(k)[a])
          /\ Annotations(k)[i].openleft /\ ~Annotations(k)[i].openright
          /\ Annotations(k)[j].openright /\ ~Annotations(k)[j].openleft

-----------------------------------------------------------------------------
(* C4: depth consistency *)

\* C4: after tokenize all annotations of one span, mouse-selected or not, have the
\* same depth, zIndex and style on every chunk the span overlaps.
C4_DepthConsistency ==
    pc = "done" =>
        \A k1, k2 \in DOMAIN text_chunks :
          \A j1 \in DOMAIN Annotations(k1) : \A j2 \in DOMAIN Annotations(k2) :
            Annotations(k1)[j1].id = Annotations(k2)[j2].id =>
                /\ Annotations(k1)[j1].depth = Annotations(k2)[j2].depth
                /\ Annotations(k1)[j1].zIndex = Annotations(k2)[j2].zIndex
                /\ Annotations(k1)[j1].style = Annotations(k2)[j2].style

-----------------------------------------------------------------------------
(* C5: opt-out *)

\* C5: after tokenize every annotation of a span that is mouse-selected or whose
\* style has autoNestingLayout = false has depth null and zIndex null, box or
\* underline.
C5_OptOut ==
    pc = "done" =>
        \A k \in DOMAIN text_chunks : \A j \in DOMAIN Annotations(k) :
            ~IsAutomatic(Annotations(k)[j]) =>
                Annotations(k)[j].depth = NULL /\ Annotations(k)[j].zIndex = NULL

-----------------------------------------------------------------------------
(* C6: sign invariant *)

\* C6: after tokenize every underline annotation has a negative depth and every
\* other annotation a depth that is not negative (depth >= 0, which null
\* satisfies), so an underline and a box annotation never have the same depth.
C6_SignInvariant ==
    pc = "done" =>
        /\ \A k \in DOMAIN text_chunks : \A j \in DOMAIN Annotations(k) :
              IF IsUnderline(Annotations(k)[j])
              THEN Annotations(k)[j].depth # NULL /\ Annotations(k)[j].depth[1] < 0
              ELSE ToNumber(Annotations(k)[j].depth) >= 0
        /\ \A k1, k2 \in DOMAIN text_chunks :
             \A j1 \in DOMAIN Annotations(k1) : \A j2 \in DOMAIN Annotations(k2) :
               IsUnderline(Annotations(k1)[j1]) /\ ~IsUnderline(Annotations(k2)[j2])
                   => Annotations(k1)[j1].depth # Annotations(k2)[j2].depth

\* an automatic underline and an automatic box on one chunk
C6_Witness ==
    /\ pc = "done"
    /\ \E k \in DOMAIN text_chunks : \E i, j \in DOMAIN Annotations(k) :
          /\ IsUnderline(Annotations(k)[i]) /\ Annotations(k)[i].depth = <<0 - 1>>
          /\ ~IsUnderline(Annotations(k)[j]) /\ Annotations(k)[j].depth = <<0>>
          /\ IsAutomatic(Annotations(k)[i]) /\ IsAutomatic(Annotations(k)[j])

-----------------------------------------------------------------------------
(* C7: the inputs are not mutated *)

\* C7: tokenize leaves the caller's spans array as it was: the same spans in the
\* same order, each with its fields unchanged.
C7_InputsUnchanged == spans = input

-----------------------------------------------------------------------------
(* C8: an unknown style fails the call *)

\* C8: whenever a span, mouse-selected or not, zero-width or not, names a style
\* that is not in the styles table, tokenize throws and returns no result.
C8_UnknownStyleFails ==
    (\E i \in DOMAIN input : input[i].style \notin DOMAIN styles) => pc # "done"

-----------------------------------------------------------------------------
(* C9: the lines are the newline-separated segments of the text *)

\* C9: for every non-empty text and well-formed spans the returned lines are, in
\* order, the segments of the text between its newlines (one more line than
\* newlines), no token is a newline, and every token's text is text[begin:end].
C9_LinesAreSegments ==
    (pc = "done" /\ Len(text) > 0 /\ WellFormed(input, text)) =>
        /\ Len(lines) = Cardinality({p \in DOMAIN text : text[p] = "\n"}) + 1
        /\ [i \in DOMAIN lines |-> LineText(lines[i])] = Segments(text)
        /\ \A i \in DOMAIN lines : \A t \in DOMAIN lines[i] :
              /\ lines[i][t].text # <<"\n">>
              /\ lines[i][t].text = SubSeq(text, lines[i][t].begin + 1, lines[i][t].end)

C9_Witness ==
    /\ pc = "done" /\ WellFormed(input, text)
    /\ text = <<"a", "a", "\n">>
    /\ \E i \in DOMAIN input : input[i].begin = 1 /\ input[i].end = 3
    /\ Len(lines) = 2 /\ Len(lines[1]) = 2 /\ lines[2] = <<>>

-----------------------------------------------------------------------------
(* C10: the cluster depth belongs to the cluster being flushed *)

\* the next step reverses the depths of the open cluster
FlushPending ==
    /\ pc = "style"
    /\ span_i <= Len(sorted) => sorted[span_i].begin >= rightMostOffset

\* the depths given to the automatically laid out underlines of the open cluster
ClusterUnderlineDepths ==
    UNION {{ToNumber(Annotations(k)[j].depth) : j \in
               {j \in DOMAIN Annotations(k) :
                   IsUnderline(Annotations(k)[j]) /\ IsAutomatic(Annotations(k)[j])}}
           : k \in {k \in DOMAIN text_chunks : (k - 1) \in underlineCluster}}

\* C10: at every flush underlineClusterDepth is the greatest underline depth given
\* in the cluster being flushed, whatever earlier clusters reached, so that the
\* deepest underline of the cluster ends at depth -1.
C10_ClusterDepthIsLocal ==
    (FlushPending /\ ClusterUnderlineDepths # {})
        => underlineClusterDepth = Max(ClusterUnderlineDepths)

====
